---- MODULE Spec2Model ----
(***************************************************************************)
(* A model of the MermaidRenderer plugin (src/unnamed/part_000): the       *)
(* readiness flag, the render handler with its suspension points, the      *)
(* export button and menu, the deferred document-level close listener and  *)
(* the two export operations.                                               *)
(*                                                                         *)
(* Text is a sequence of one-character strings.  The diagram library, the  *)
(* DOM, the canvas and the vault are the environment: every outcome they   *)
(* can hand back to the plugin is a nondeterministic input of the action   *)
(* that receives it.                                                        *)
(***************************************************************************)
EXTENDS Integers, Sequences, FiniteSets, TLC

\* ------------------------------------------------------------------ bounds
NumEls == 2
MaxSrcLen == 2
MaxPathLen == 3
MaxMenus == 2
MaxRuns == 1
MaxPx == 1
MaxClient == 1

Els == 1..NumEls
MenuIds == 1..MaxMenus

\* ------------------------------------------------------------------ text
RECURSIVE StringsUpTo(_, _)
StringsUpTo(alphabet, n) ==
    IF n = 0 THEN {<<>>}
    ELSE LET shorter == StringsUpTo(alphabet, n - 1)
         IN  shorter \cup {Append(s, c) : s \in shorter, c \in alphabet}

IsWhitespace(c) == c = " "

\* String.prototype.trim: drops the leading and the trailing whitespace
RECURSIVE TrimStart(_)
TrimStart(s) ==
    IF s = <<>> THEN <<>>
    ELSE IF IsWhitespace(Head(s)) THEN TrimStart(Tail(s)) ELSE s

RECURSIVE TrimEnd(_)
TrimEnd(s) ==
    IF s = <<>> THEN <<>>
    ELSE IF IsWhitespace(s[Len(s)]) THEN TrimEnd(SubSeq(s, 1, Len(s) - 1)) ELSE s

TrimNothing(s) == s
Trim(s) == TrimEnd(TrimStart(s))

\* String.prototype.includes for a one-character needle
Includes(s, c) == \E k \in 1..Len(s) : s[k] = c

\* String.prototype.lastIndexOf, 0-based, -1 when absent
LastIndexOf(s, c) ==
    IF Includes(s, c)
    THEN (CHOOSE k \in 1..Len(s) :
              s[k] = c /\ \A j \in (k + 1)..Len(s) : s[j] # c) - 1
    ELSE -1

\* String.prototype.indexOf, 0-based, -1 when absent
IndexOf(s, c) ==
    IF Includes(s, c)
    THEN (CHOOSE k \in 1..Len(s) :
              s[k] = c /\ \A j \in 1..(k - 1) : s[j] # c) - 1
    ELSE -1

\* String.prototype.substring(from, to), 0-based, to exclusive
Substring(s, from, to) == SubSeq(s, from + 1, to)

\* parseInt(text): the number its leading decimal digits spell, NaN when it
\* starts with none
Digits == <<"0", "1", "2", "3", "4", "5", "6", "7", "8", "9">>
IsDigit(c) == \E d \in 1..Len(Digits) : Digits[d] = c
DigitValue(c) == (CHOOSE d \in 1..Len(Digits) : Digits[d] = c) - 1
RECURSIVE LeadingDigits(_)
LeadingDigits(s) ==
    IF s = <<>> \/ ~IsDigit(Head(s)) THEN <<>>
    ELSE <<Head(s)>> \o LeadingDigits(Tail(s))
RECURSIVE DecimalValue(_)
DecimalValue(ds) ==
    IF ds = <<>> THEN 0
    ELSE 10 * DecimalValue(SubSeq(ds, 1, Len(ds) - 1)) + DigitValue(ds[Len(ds)])
NaN == [nan |-> TRUE, value |-> 0]
ParseInt(text) ==
    IF LeadingDigits(text) = <<>> THEN NaN
    ELSE [nan |-> FALSE, value |-> DecimalValue(LeadingDigits(text))]

\* ------------------------------------------------------------------ inputs
SourceChars == {" ", "g"}
Sources == StringsUpTo(SourceChars, MaxSrcLen)

PathChars == {"/", "n"}
\* ctx.sourcePath; NoPath stands for a missing (undefined) path
NoPath == <<"undefined">>
AllPaths == StringsUpTo(PathChars, MaxPathLen) \cup {NoPath}

\* getComputedStyle(svg).width / .height: a length in px, whole or with a
\* fraction, or the keyword auto
PxText(whole, frac) ==
    <<Digits[whole + 1]>> \o (IF frac THEN <<".", "5">> ELSE <<>>) \o <<"p", "x">>
CssLengths ==
    {<<"a", "u", "t", "o">>} \cup {PxText(w, f) : w \in 0..MaxPx, f \in BOOLEAN}
\* svg.clientWidth / .clientHeight
ClientSizes == 0..MaxClient
Measures ==
    [width : CssLengths, height : CssLengths,
     clientWidth : ClientSizes, clientHeight : ClientSizes]
OneMeasure ==
    {[width |-> PxText(1, FALSE), height |-> PxText(1, FALSE),
      clientWidth |-> 1, clientHeight |-> 1]}

\* what the library can throw: an Error with a message, or a value without one
LibMessages == {"Parse error", ""}

\* markup the library's render step can hand back
GoodMarkup == <<"<svg>", "A", "</svg>">>
BrokenMarkup == <<"<svg>", "A">>
OtherMarkup == <<"<div>", "A", "</div>">>
Markups == {GoodMarkup, BrokenMarkup, OtherMarkup}

\* ------------------------------------------------------------------ DOM
\* the parser reporting the root's tag name in upper case, as an HTML
\* document would
ParseFromStringUpper(markup) ==
    IF Len(markup) = 3 /\ markup[1] = "<svg>" /\ markup[3] = "</svg>"
    THEN [tagName |-> "SVG", content |-> markup[2]]
    ELSE [tagName |-> "parsererror", content |-> "error"]

\* DOMParser.parseFromString(markup, 'image/svg+xml').documentElement:
\* the root element of well-formed markup, a parsererror element otherwise
ParseFromString(markup) ==
    IF Len(markup) = 3 /\ markup[1] = "<svg>" /\ markup[3] = "</svg>"
    THEN [tagName |-> "svg", content |-> markup[2]]
    ELSE IF Len(markup) = 3 /\ markup[1] = "<div>" /\ markup[3] = "</div>"
    THEN [tagName |-> "div", content |-> markup[2]]
    ELSE [tagName |-> "parsererror", content |-> "error"]

\* XMLSerializer.serializeToString of an element
SerializeToString(node) ==
    <<"<" \o node.tagName \o ">", node.content, "</" \o node.tagName \o ">">>

\* children of a container
SvgNode(parsed) == [tag |-> "svg", id |-> 0, content |-> <<parsed.content>>]
ExportBtn == [tag |-> "mermaid-export-btn", id |-> 0, content |-> <<"Export">>]
ExportMenu(m) ==
    [tag |-> "mermaid-export-menu", id |-> m,
     content |-> <<"Export as SVG", "Export as PNG">>]

\* children of an output element
ContainerDiv(kids) ==
    [cls |-> "mermaid-container", text |-> "", message |-> <<>>,
     code |-> <<>>, kids |-> kids]
InitErrorDiv ==
    [cls |-> "mermaid-error", text |-> "Failed to initialize Mermaid library",
     message |-> <<>>, code |-> <<>>, kids |-> <<>>]

\* error.message || "Unknown error"
ErrorText(message) == IF message = "" THEN "Unknown error" ELSE message

ErrorBlockOf(message, text) ==
    [cls |-> "mermaid-error", text |-> "",
     message |-> <<"Mermaid Error: ", ErrorText(message)>>,
     code |-> text, kids |-> <<>>]
ErrorBlockTrimmed(message, source) == ErrorBlockOf(message, Trim(source))
ErrorBlock(message, source) == ErrorBlockOf(message, source)

CountIn(s, tag) == Cardinality({k \in 1..Len(s) : s[k].tag = tag})

IsSvg(n) == n.tag = "svg"
IsBtn(n) == n.tag = "mermaid-export-btn"
IsMenu(n) == n.tag = "mermaid-export-menu"
IsContainer(c) == c.cls = "mermaid-container"
IsError(c) == c.cls = "mermaid-error"

\* ------------------------------------------------------------------ state
VARIABLES
    mermaidInitialized, \* this.mermaidInitialized
    plugin,             \* the host's view of the plugin
    lastInitialize,     \* outcome of the last mermaid.initialize call
    initFailed,         \* a mermaid.initialize call threw since the last load
    render,             \* per output element: the renderMermaid invocation
    el,                 \* per output element: its children
    timers,             \* menus whose setTimeout callback is pending
    listeners,          \* menus whose closeMenu is registered on the document
    png,                \* per menu: the exportAsPNG run its option started
    svgx,               \* per output element: the exportAsSVG run awaiting the vault
    out                 \* what the last step showed, wrote, or let escape

vars == <<mermaidInitialized, plugin, lastInitialize, initFailed, render, el, timers, listeners,
          png, svgx, out>>

flagVars == <<mermaidInitialized, lastInitialize, initFailed>>
menuVars == <<timers, listeners>>
exportVars == <<png, svgx>>

IdleRender ==
    [pc |-> "idle", source |-> <<>>, path |-> NoPath, initAtStart |-> FALSE,
     failedBefore |-> FALSE, ownInit |-> "none", flagAtCheck |-> "unread",
     parse |-> "none",
     rendered |-> <<>>, thrown |-> "none"]
\* no size measured
NoMeasure ==
    [width |-> <<>>, height |-> <<>>, clientWidth |-> 0, clientHeight |-> 0]
\* what an exportAsPNG run keeps for img.onload: its width and height, and
\* its canvas
NoShot ==
    [width |-> 0, height |-> 0,
     canvas |-> [width |-> 0, height |-> 0, transform |-> 1]]
IdlePng == [pc |-> "idle", el |-> 0, shot |-> NoShot]
\* a step that calls neither initializeMermaid nor a vault method and ends
\* no export
Quiet ==
    [initialize |-> "none", export |-> "none", failure |-> "none", notice |-> "none",
     escaped |-> FALSE, settled |-> TRUE,
     write |-> "none", doc |-> NoPath, path |-> <<>>, data |-> <<>>,
     measured |-> NoMeasure, canvas |-> <<>>, fill |-> <<>>]

Init ==
    /\ mermaidInitialized = FALSE
    /\ plugin = "unloaded"
    /\ lastInitialize = "none"
    /\ initFailed = FALSE
    /\ render = [i \in Els |-> IdleRender]
    /\ el = [i \in Els |-> <<>>]
    /\ timers = {}
    /\ listeners = {}
    /\ png = [m \in MenuIds |-> IdlePng]
    /\ svgx = [i \in Els |-> "idle"]
    /\ out = Quiet

\* ------------------------------------------------------------------ bootstrap
\* a call of initializeMermaid: what it did with mermaid.initialize
Initialized(how) == [Quiet EXCEPT !.initialize = how]

\* initializeMermaid without its early return
InitializeMermaidAgain(ok) ==
    /\ out' = Initialized(IF ok THEN "configured" ELSE "threw")
    /\ lastInitialize' = IF ok THEN "ok" ELSE "threw"
    /\ initFailed' = (initFailed \/ ~ok)
    /\ mermaidInitialized' = (mermaidInitialized \/ ok)

\* initializeMermaid setting the flag before the configuration call returns
InitializeMermaidEager(ok) ==
    IF mermaidInitialized
    THEN /\ out' = Initialized("returned early")
         /\ UNCHANGED <<mermaidInitialized, lastInitialize, initFailed>>
    ELSE /\ out' = Initialized(IF ok THEN "configured" ELSE "threw")
         /\ lastInitialize' = IF ok THEN "ok" ELSE "threw"
         /\ initFailed' = (initFailed \/ ~ok)
         /\ mermaidInitialized' = TRUE

\* initializeMermaid giving up for good after a configuration call that threw
InitializeMermaidOnce(ok) ==
    IF mermaidInitialized \/ initFailed
    THEN /\ out' = Initialized("returned early")
         /\ UNCHANGED <<mermaidInitialized, lastInitialize, initFailed>>
    ELSE /\ out' = Initialized(IF ok THEN "configured" ELSE "threw")
         /\ lastInitialize' = IF ok THEN "ok" ELSE "threw"
         /\ initFailed' = (initFailed \/ ~ok)
         /\ mermaidInitialized' = ok

\* initializeMermaid: no await inside, so the whole body is one step.
\* ok: whether mermaid.initialize returns (TRUE) or throws (FALSE)
InitializeMermaid(ok) ==
    IF mermaidInitialized
    THEN /\ out' = Initialized("returned early")
         /\ UNCHANGED <<mermaidInitialized, lastInitialize, initFailed>>
    ELSE /\ out' = Initialized(IF ok THEN "configured" ELSE "threw")
         /\ lastInitialize' = IF ok THEN "ok" ELSE "threw"
         /\ initFailed' = (initFailed \/ ~ok)
         /\ mermaidInitialized' = ok

\* onload up to its await
OnloadStart(ok) ==
    /\ plugin = "unloaded"
    /\ InitializeMermaid(ok)
    /\ plugin' = "loading"
    /\ UNCHANGED <<render, el, menuVars, exportVars>>

\* onload after its await: the code block processor is registered
OnloadRegister ==
    /\ plugin = "loading"
    /\ plugin' = "loaded"
    /\ UNCHANGED <<flagVars, render, el, menuVars, exportVars>>
    /\ out' = Quiet

\* ------------------------------------------------------------------ render
\* the container renderMermaid created under output element i
HasContainer(i) == \E k \in 1..Len(el[i]) : IsContainer(el[i][k])
ContainerIndex(i) == CHOOSE k \in 1..Len(el[i]) : IsContainer(el[i][k])
\* the children looked up in the first block's container, whichever block asks
KidsOfFirst(i) == IF HasContainer(1) THEN el[1][ContainerIndex(1)].kids ELSE <<>>
Kids(i) == IF HasContainer(i) THEN el[i][ContainerIndex(i)].kids ELSE <<>>
WithKids(i, kids) == [el[i] EXCEPT ![ContainerIndex(i)].kids = kids]

\* addExportFunctionality attaching nothing
AddExportNever(kids) == kids

\* addExportFunctionality: the children of the container afterwards
AddExportFunctionality(kids) ==
    IF \E k \in 1..Len(kids) : IsBtn(kids[k]) THEN kids ELSE Append(kids, ExportBtn)

\* the synchronous stretch from the try to the await of mermaid.parse,
\* for the invocation record r of output element i
RenderBody(i, r) ==
    LET withContainer == Append(el[i], ContainerDiv(<<>>))
        cleanSource == Trim(r.source)
    IN  IF cleanSource = <<>>
        THEN /\ el' = [el EXCEPT ![i] =
                          Append(withContainer,
                                 ErrorBlock("Empty Mermaid diagram", r.source))]
             /\ render' = [render EXCEPT ![i] = [r EXCEPT !.pc = "done"]]
        ELSE /\ el' = [el EXCEPT ![i] = withContainer]
             /\ render' = [render EXCEPT ![i] =
                              [r EXCEPT !.pc = "parse", !.parse = "called"]]

\* initializeMermaid called on its own, as any holder of the plugin may
DirectInitialize(ok) ==
    /\ InitializeMermaid(ok)
    /\ UNCHANGED <<plugin, render, el, menuVars, exportVars>>

\* the host calls the registered handler: renderMermaid up to its first await
RenderStart(i, source, path, ok) ==
    /\ plugin = "loaded"
    /\ render[i].pc = "idle"
    /\ LET r == [IdleRender EXCEPT !.source = source, !.path = path,
                                   !.initAtStart = mermaidInitialized,
                                   !.failedBefore = initFailed]
       IN  IF ~mermaidInitialized
           THEN /\ InitializeMermaid(ok)
                /\ render' = [render EXCEPT ![i] =
                                 [r EXCEPT !.pc = "init",
                                           !.ownInit = IF ok THEN "ok"
                                                       ELSE "threw"]]
                /\ UNCHANGED el
           ELSE /\ RenderBody(i, [r EXCEPT !.flagAtCheck = "true"])
                /\ out' = Quiet
                /\ UNCHANGED flagVars
    /\ UNCHANGED <<plugin, menuVars, exportVars>>

\* the handler marking the library ready itself once its await returns
RenderAfterInitMarks(i) ==
    /\ render[i].pc = "init"
    /\ mermaidInitialized' = TRUE
    /\ RenderBody(i, [render[i] EXCEPT !.flagAtCheck = "true"])
    /\ UNCHANGED <<lastInitialize, initFailed, plugin, menuVars, exportVars>>
    /\ out' = Quiet

\* renderMermaid resumes after await this.initializeMermaid()
RenderAfterInit(i) ==
    /\ render[i].pc = "init"
    /\ IF ~mermaidInitialized
       THEN /\ el' = [el EXCEPT ![i] = Append(@, InitErrorDiv)]
            /\ render' = [render EXCEPT ![i].pc = "done",
                                        ![i].flagAtCheck = "false"]
       ELSE RenderBody(i, [render[i] EXCEPT !.flagAtCheck = "true"])
    /\ UNCHANGED <<flagVars, plugin, menuVars, exportVars>>
    /\ out' = Quiet

\* renderMermaid resumes after await mermaid.parse(cleanSource);
\* outcome: what the library answered
RenderAfterParse(i, outcome, message) ==
    /\ render[i].pc = "parse"
    /\ CASE outcome = "accept" ->
              /\ render' = [render EXCEPT ![i].pc = "render",
                                          ![i].parse = "accept",
                                          ![i].rendered = <<"called">>]
              /\ UNCHANGED el
         [] outcome = "false" ->
              /\ render' = [render EXCEPT ![i].pc = "done", ![i].parse = "false"]
              /\ el' = [el EXCEPT ![i] =
                           Append(@, ErrorBlock("Invalid Mermaid syntax",
                                                render[i].source))]
         [] outcome = "threw" ->
              /\ render' = [render EXCEPT ![i].pc = "done", ![i].parse = "threw",
                                          ![i].thrown = message]
              /\ el' = [el EXCEPT ![i] =
                           Append(@, ErrorBlock(message, render[i].source))]
    /\ UNCHANGED <<flagVars, plugin, menuVars, exportVars>>
    /\ out' = Quiet

\* renderMermaid resumes after await mermaid.render(id, cleanSource)
RenderAfterRender(i, outcome, markup, message) ==
    /\ render[i].pc = "render"
    /\ IF outcome = "threw"
       THEN /\ render' = [render EXCEPT ![i].pc = "done",
                                       ![i].rendered = <<"threw">>,
                                       ![i].thrown = message]
            /\ el' = [el EXCEPT ![i] =
                         Append(@, ErrorBlock(message, render[i].source))]
       ELSE LET svgElement == ParseFromString(markup)
            IN  IF svgElement.tagName = "svg"
                THEN /\ render' = [render EXCEPT ![i].pc = "done",
                                                ![i].rendered = markup]
                     /\ el' = [el EXCEPT ![i] =
                                  WithKids(i, AddExportFunctionality(
                                      Append(Kids(i), SvgNode(svgElement))))]
                ELSE /\ render' = [render EXCEPT ![i].pc = "done",
                                                ![i].rendered = markup]
                     /\ el' = [el EXCEPT ![i] =
                                  Append(@, ErrorBlock("Failed to render SVG element",
                                                       render[i].source))]
    /\ UNCHANGED <<flagVars, plugin, menuVars, exportVars>>
    /\ out' = Quiet

\* ------------------------------------------------------------------ unload
NotMenuNorBtn(n) == ~IsMenu(n) /\ ~IsBtn(n)
SweepChild(c) == [c EXCEPT !.kids = SelectSeq(c.kids, NotMenuNorBtn)]
Sweep(children) == [k \in 1..Len(children) |-> SweepChild(children[k])]

\* onunload: the flag is cleared, every menu and button in the document removed;
\* the host drops the registered processor
Onunload ==
    /\ plugin = "loaded"
    /\ mermaidInitialized' = FALSE
    /\ initFailed' = FALSE
    /\ el' = [i \in Els |-> Sweep(el[i])]
    /\ plugin' = "unloaded"
    /\ out' = Quiet
    /\ UNCHANGED <<lastInitialize, render, menuVars, exportVars>>

\* ------------------------------------------------------------------ menu
HasBtn(i) == \E k \in 1..Len(Kids(i)) : IsBtn(Kids(i)[k])
MenusIn(i) == {Kids(i)[k].id : k \in {j \in 1..Len(Kids(i)) : IsMenu(Kids(i)[j])}}
MenuCount(i) == CountIn(Kids(i), "mermaid-export-menu")
Attached(m) == \E i \in Els : m \in MenusIn(i)
\* the container menu m was created in
ElOf(m) == CHOOSE i \in Els : m \in MenusIn(i)

\* a menu no closure or pending callback refers to any more
Reusable(m) ==
    /\ ~Attached(m)
    /\ m \notin timers
    /\ m \notin listeners
    /\ png[m].pc \in {"idle", "hung"}
FreshMenu == CHOOSE m \in MenuIds : Reusable(m) /\ \A n \in 1..(m - 1) : ~Reusable(n)

\* element.remove() for each menu of ms, wherever it is attached
RemoveMenus(ms) ==
    [i \in Els |->
        [k \in 1..Len(el[i]) |->
            [el[i][k] EXCEPT
                !.kids = SelectSeq(@, LAMBDA n : ~(IsMenu(n) /\ n.id \in ms))]]]

\* container.querySelector('.mermaid-export-menu'): the first menu in the container
ExistingMenu(i) ==
    Kids(i)[CHOOSE k \in 1..Len(Kids(i)) :
                IsMenu(Kids(i)[k]) /\ \A j \in 1..(k - 1) : ~IsMenu(Kids(i)[j])].id

\* the menu is created, attached, and its deferred listener scheduled
OpenMenu(i) ==
    /\ \E m \in MenuIds : Reusable(m)
    /\ el' = [el EXCEPT ![i] = WithKids(i, Append(Kids(i), ExportMenu(FreshMenu)))]
    /\ timers' = timers \cup {FreshMenu}
    /\ png' = [png EXCEPT ![FreshMenu] = IdlePng]

\* showExportMenu without the check for an existing menu
ShowExportMenuAlways(i) == OpenMenu(i)

\* showExportMenu(container, diagramId, context)
ShowExportMenu(i) ==
    IF MenuCount(i) > 0
    THEN /\ el' = RemoveMenus({ExistingMenu(i)})
         /\ UNCHANGED <<timers, png>>
    ELSE OpenMenu(i)

\* a click on the export button of container i: the handler stops the
\* propagation, so no document-level listener sees the click
ClickExportBtn(i) ==
    /\ HasBtn(i)
    /\ ShowExportMenu(i)
    /\ out' = Quiet
    /\ UNCHANGED <<flagVars, plugin, render, listeners, svgx>>

\* the setTimeout callback of menu m: closeMenu is registered on the document
TimerFires(m) ==
    /\ m \in timers
    /\ timers' = timers \ {m}
    /\ listeners' = listeners \cup {m}
    /\ out' = Quiet
    /\ UNCHANGED <<flagVars, plugin, render, el, exportVars>>

\* a click that reaches the document, on a target inside menu `inside`
\* (0: inside no menu): every registered closeMenu runs
ClickDocument(inside) ==
    /\ inside = 0 \/ Attached(inside)
    /\ LET closing == listeners \ {inside}
       IN  /\ el' = RemoveMenus(closing)
           /\ listeners' = listeners \ closing
    /\ out' = Quiet
    /\ UNCHANGED <<flagVars, plugin, render, timers, exportVars>>

\* ------------------------------------------------------------------ export
Stamps == {"1700000000000"}
XmlDeclaration == "<?xml version=\"1.0\" encoding=\"UTF-8\"?>"
Doctype == "<!DOCTYPE svg PUBLIC \"-//W3C//DTD SVG 1.1//EN\" \"http://www.w3.org/Graphics/SVG/1.1/DTD/svg11.dtd\">"

\* container.querySelector("svg"): the first svg child
HasSvg(i) == \E k \in 1..Len(Kids(i)) : IsSvg(Kids(i)[k])
FirstSvg(i) ==
    Kids(i)[CHOOSE k \in 1..Len(Kids(i)) :
                IsSvg(Kids(i)[k]) /\ \A j \in 1..(k - 1) : ~IsSvg(Kids(i)[j])]
\* the element as the serializer sees it
AsElement(n) == [tagName |-> n.tag, content |-> n.content[1]]

FileName(stamp, ext) == <<"mermaid-diagram-", stamp, ext>>

\* the directory taken up to the first '/' instead of the last
CurrentDirFirst(sourcePath) ==
    LET currentFilePath == IF sourcePath = NoPath THEN <<>> ELSE sourcePath
    IN  IF Includes(currentFilePath, "/")
        THEN Substring(currentFilePath, 0, IndexOf(currentFilePath, "/"))
        ELSE <<>>

\* context.sourcePath || "", then the part before the last '/'
CurrentDir(sourcePath) ==
    LET currentFilePath == IF sourcePath = NoPath THEN <<>> ELSE sourcePath
    IN  IF Includes(currentFilePath, "/")
        THEN Substring(currentFilePath, 0, LastIndexOf(currentFilePath, "/"))
        ELSE <<>>

\* currentDir ? `${currentDir}/${fileName}` : fileName
FilePath(currentDir, fileName) ==
    IF currentDir # <<>> THEN currentDir \o <<"/">> \o fileName ELSE fileName

\* the text without the document-type declaration
FullSvgStringBare(svgString) == <<XmlDeclaration, "\n">> \o svgString

\* the text exportAsSVG writes
FullSvgString(svgString) ==
    <<XmlDeclaration, "\n", Doctype, "\n">> \o svgString

\* an export run ends: its failure (if any), the Notice it showed, whether a
\* rejection escaped to its caller, whether its promise settled at all
Ended(kind, failure, notice, escaped, settled) ==
    [Quiet EXCEPT !.export = kind, !.failure = failure, !.notice = notice,
                  !.escaped = escaped, !.settled = settled]
\* a vault.create / vault.createBinary call
Wrote(kind, sourcePath, path, data) ==
    [Quiet EXCEPT !.write = kind, !.doc = sourcePath, !.path = path,
                  !.data = data]

\* export runs waiting for the vault, the image or the canvas
RunsInFlight ==
    Cardinality({i \in Els : svgx[i] # "idle"})
        + Cardinality({m \in MenuIds : png[m].pc \notin {"idle", "hung"}})

\* a click on "Export as SVG" of menu m: exportAsSVG up to its await,
\* then menu.remove()
ClickSvgOption(m, stamp) ==
    /\ Attached(m)
    /\ RunsInFlight < MaxRuns
    /\ LET i == ElOf(m)
       IN  /\ svgx[i] = "idle"
           /\ IF ~HasSvg(i)
              THEN /\ out' = Ended("svg", "No SVG element found",
                                   "failure", FALSE, TRUE)
                   /\ UNCHANGED svgx
              ELSE LET clonedSvg == FirstSvg(i)
                       svgString == SerializeToString(AsElement(clonedSvg))
                   IN  /\ out' = Wrote("text", render[i].path,
                                       FilePath(CurrentDir(render[i].path),
                                                FileName(stamp, ".svg")),
                                       FullSvgString(svgString))
                       /\ svgx' = [svgx EXCEPT ![i] = "writing"]
    /\ el' = RemoveMenus({m})
    /\ UNCHANGED <<flagVars, plugin, render, menuVars, png>>

\* await this.app.vault.create(...) settles
SvgWriteSettles(i, ok) ==
    /\ svgx[i] = "writing"
    /\ svgx' = [svgx EXCEPT ![i] = "idle"]
    /\ out' = IF ok THEN Ended("svg", "none", "success", FALSE, TRUE)
              ELSE Ended("svg", "vault.create rejected", "failure", FALSE, TRUE)
    /\ UNCHANGED <<flagVars, plugin, render, el, menuVars, png>>

\* parseInt(computed) || client || fallback
DefaultWidth == 800
DefaultHeight == 600
OrElse(parsed, client, fallback) ==
    IF ~parsed.nan /\ parsed.value # 0 THEN parsed.value
    ELSE IF client # 0 THEN client
    ELSE fallback
MeasuredWidth(measured) ==
    OrElse(ParseInt(measured.width), measured.clientWidth, DefaultWidth)
MeasuredHeight(measured) ==
    OrElse(ParseInt(measured.height), measured.clientHeight, DefaultHeight)

\* document.createElement("canvas") and its 2d context
NewCanvas == [width |-> 300, height |-> 150, transform |-> 1]
\* setting canvas.width or canvas.height resets the context's transform
SetSize(canvas, width, height) ==
    [width |-> width, height |-> height, transform |-> 1]
\* ctx.scale(s, s)
CtxScale(canvas, s) == [canvas EXCEPT !.transform = @ * s]
Min(a, b) == IF a < b THEN a ELSE b
\* ctx.fillRect(0, 0, w, h): the device pixels painted, from the origin
FillRect(canvas, w, h) ==
    <<Min(w * canvas.transform, canvas.width),
      Min(h * canvas.transform, canvas.height)>>

Scale == 2
\* the context scaled before the canvas is sized
SizedCanvasScaledFirst(width, height) ==
    SetSize(CtxScale(NewCanvas, Scale), width * Scale, height * Scale)
\* canvas.width = width * scale; canvas.height = height * scale;
\* ctx.scale(scale, scale)
SizedCanvas(width, height) ==
    CtxScale(SetSize(NewCanvas, width * Scale, height * Scale), Scale)

\* the run's width, height and canvas at the promise
Shot(measured) ==
    [width |-> MeasuredWidth(measured),
     height |-> MeasuredHeight(measured),
     canvas |-> SizedCanvas(MeasuredWidth(measured), MeasuredHeight(measured))]

\* reject(...) of the promise exportAsPNG returned: nothing in exportAsPNG
\* awaits it, so the rejection reaches the click handler's await, which
\* throws before menu.remove()
PngRejects(m, failure) ==
    /\ png' = [png EXCEPT ![m] = IdlePng]
    /\ out' = Ended("png", failure, "none", TRUE, TRUE)

\* a click on "Export as PNG" of menu m: exportAsPNG up to the promise;
\* canvasOk: getContext returned a context; measures: the sizes
\* getComputedStyle and the element may report
ClickPngOption(m, canvasOk, measures) ==
    /\ Attached(m)
    /\ RunsInFlight < MaxRuns
    /\ png[m].pc \in {"idle", "hung"}
    /\ LET i == ElOf(m)
       IN  IF ~HasSvg(i)
           THEN /\ out' = Ended("png", "No SVG element found",
                                "failure", FALSE, TRUE)
                /\ png' = [png EXCEPT ![m] = [IdlePng EXCEPT !.pc = "resolved",
                                                            !.el = i]]
           ELSE IF ~canvasOk
           THEN /\ out' = Ended("png", "Could not get canvas context",
                                "failure", FALSE, TRUE)
                /\ png' = [png EXCEPT ![m] = [IdlePng EXCEPT !.pc = "resolved",
                                                            !.el = i]]
           ELSE \E measured \in measures :
                    /\ png' = [png EXCEPT ![m] = [pc |-> "loading", el |-> i,
                                                  shot |-> Shot(measured)]]
                    /\ out' = [Quiet EXCEPT
                                  !.measured = measured,
                                  !.canvas = <<Shot(measured).canvas.width,
                                               Shot(measured).canvas.height>>]
    /\ UNCHANGED <<flagVars, plugin, render, el, menuVars, svgx>>

\* img.onload: the background is filled, the image drawn, toBlob called;
\* drawOk: none of the canvas calls threw
PngImageLoad(m, drawOk) ==
    /\ png[m].pc = "loading"
    /\ IF drawOk
       THEN /\ png' = [png EXCEPT ![m].pc = "encoding", ![m].shot = NoShot]
            /\ out' = [Quiet EXCEPT
                          !.canvas = <<png[m].shot.canvas.width,
                                       png[m].shot.canvas.height>>,
                          !.fill = FillRect(png[m].shot.canvas,
                                            png[m].shot.width,
                                            png[m].shot.height)]
       ELSE PngRejects(m, "canvas call threw")
    /\ UNCHANGED <<flagVars, plugin, render, el, menuVars, svgx>>

\* img.onerror
PngImageError(m) ==
    /\ png[m].pc = "loading"
    /\ PngRejects(m, "Failed to load SVG image")
    /\ UNCHANGED <<flagVars, plugin, render, el, menuVars, svgx>>

\* the toBlob callback up to await blob.arrayBuffer()
PngBlob(m, hasBlob) ==
    /\ png[m].pc = "encoding"
    /\ IF hasBlob
       THEN /\ png' = [png EXCEPT ![m].pc = "buffer"]
            /\ out' = Quiet
       ELSE PngRejects(m, "Failed to create PNG blob")
    /\ UNCHANGED <<flagVars, plugin, render, el, menuVars, svgx>>

\* the toBlob callback from the array buffer to await createBinary(...)
PngBuffer(m, stamp) ==
    /\ png[m].pc = "buffer"
    /\ png' = [png EXCEPT ![m].pc = "writing"]
    /\ out' = Wrote("binary", render[png[m].el].path,
                    FilePath(CurrentDir(render[png[m].el].path),
                             FileName(stamp, ".png")),
                    <<"image/png">>)
    /\ UNCHANGED <<flagVars, plugin, render, el, menuVars, svgx>>

\* await this.app.vault.createBinary(...) settles: on success the notice and
\* resolve(); on failure the callback's own promise rejects, unobserved, and
\* the promise exportAsPNG returned never settles
PngWriteSettles(m, ok) ==
    /\ png[m].pc = "writing"
    /\ IF ok
       THEN /\ png' = [png EXCEPT ![m].pc = "resolved"]
            /\ out' = Ended("png", "none", "success", FALSE, TRUE)
       ELSE /\ png' = [png EXCEPT ![m] = [IdlePng EXCEPT !.pc = "hung"]]
            /\ out' = Ended("png", "vault.createBinary rejected",
                            "none", FALSE, FALSE)
    /\ UNCHANGED <<flagVars, plugin, render, el, menuVars, svgx>>

\* the click handler resumes after await this.exportAsPNG(...): menu.remove()
PngHandlerResumes(m) ==
    /\ png[m].pc = "resolved"
    /\ png' = [png EXCEPT ![m] = IdlePng]
    /\ el' = RemoveMenus({m})
    /\ out' = Quiet
    /\ UNCHANGED <<flagVars, plugin, render, menuVars, svgx>>

\* ------------------------------------------------------------------ system
ParseOutcomes == {"accept", "false", "threw"}
RenderOutcomes == {"markup", "threw"}

\* the plugin's life cycle and the render handler, for the answers of
\* mermaid.initialize, the output elements, the handler arguments and the
\* answers of mermaid.parse and mermaid.render the environment is allowed
NextRender(inits, els, sources, paths, messages, markups, parsed, rendered) ==
    \/ \E ok \in inits : OnloadStart(ok)
    \/ OnloadRegister
    \/ Onunload
    \/ \E i \in els, source \in sources, path \in paths, ok \in inits :
           RenderStart(i, source, path, ok)
    \/ \E i \in els, outcome \in parsed, message \in messages :
           RenderAfterParse(i, outcome, message)
    \/ \E i \in els, outcome \in rendered, markup \in markups,
          message \in messages :
           RenderAfterRender(i, outcome, markup, message)

\* the render handler resumes after its own initialization attempt; it made
\* one only if some mermaid.initialize call failed before
NextRetry ==
    \E i \in Els : RenderAfterInit(i)

\* the user's clicks and the timer
NextMenu ==
    \/ \E i \in Els : ClickExportBtn(i)
    \/ \E m \in MenuIds : TimerFires(m)
    \/ \E inside \in {0} \cup MenuIds : ClickDocument(inside)

\* "Export as SVG" and the vault's answer
NextSvgRun ==
    \/ \E m \in MenuIds, stamp \in Stamps : ClickSvgOption(m, stamp)
    \/ \E i \in Els, ok \in BOOLEAN : SvgWriteSettles(i, ok)

\* "Export as PNG" and the callbacks of its run, for the sizes the browser
\* may measure
NextPngRun(measures) ==
    \/ \E m \in MenuIds, canvasOk \in BOOLEAN :
           ClickPngOption(m, canvasOk, measures)
    \/ \E m \in MenuIds, drawOk \in BOOLEAN : PngImageLoad(m, drawOk)
    \/ \E m \in MenuIds : PngImageError(m)
    \/ \E m \in MenuIds, hasBlob \in BOOLEAN : PngBlob(m, hasBlob)
    \/ \E m \in MenuIds, stamp \in Stamps : PngBuffer(m, stamp)
    \/ \E m \in MenuIds, ok \in BOOLEAN : PngWriteSettles(m, ok)
    \/ \E m \in MenuIds : PngHandlerResumes(m)

\* the two export options and the callbacks of their runs
NextExport(measures) ==
    \/ NextSvgRun
    \/ NextPngRun(measures)

OneSource == {<<"g">>}
\* a blank source and one to trim
FewSources == {<<" ">>, <<" ", "g">>}
OnePath == {<<"n", "/", "n">>}
OneMessage == {"Parse error"}

\* the whole plugin
Next ==
    \/ NextRender(BOOLEAN, Els, Sources, AllPaths, LibMessages, Markups,
                  ParseOutcomes, RenderOutcomes)
    \/ NextRetry
    \/ NextMenu
    \/ NextExport(Measures)
Spec == Init /\ [][Next]_vars

\* the life cycle and the render handler for one block, over every source
\* text and library answer
NextRenderOnly ==
    \/ NextRender(BOOLEAN, {1}, Sources, OnePath, LibMessages, Markups,
                  ParseOutcomes, RenderOutcomes)
    \/ NextRetry
SpecRender == Init /\ [][NextRenderOnly]_vars

\* the life cycle and the render handler for every block of one source text
NextBlocks ==
    \/ NextRender(BOOLEAN, Els, OneSource, OnePath, OneMessage, {GoodMarkup},
                  ParseOutcomes, RenderOutcomes)
    \/ NextRetry
SpecBlocks == Init /\ [][NextBlocks]_vars

\* the life cycle and the render handler, with initializeMermaid also
\* called directly
NextCalls ==
    \/ NextBlocks
    \/ \E ok \in BOOLEAN : DirectInitialize(ok)
SpecCalls == Init /\ [][NextCalls]_vars

\* two diagrams that render (the library never fails), their menus and
\* their exports
NextMenus ==
    \/ NextRender({TRUE}, Els, OneSource, OnePath, OneMessage, {GoodMarkup},
                  {"accept"}, {"markup"})
    \/ NextMenu
    \/ NextExport(OneMeasure)
SpecMenus == Init /\ [][NextMenus]_vars

\* one diagram that renders, in a document at any path, its menu and its
\* exports
NextExports ==
    \/ NextRender({TRUE}, {1}, OneSource, AllPaths, OneMessage, {GoodMarkup},
                  {"accept"}, {"markup"})
    \/ NextMenu
    \/ NextExport(OneMeasure)
SpecExports == Init /\ [][NextExports]_vars

\* one activation and the render handlers of every block, for every library
\* answer
NextPair ==
    \/ \E ok \in BOOLEAN : OnloadStart(ok)
    \/ OnloadRegister
    \/ \E i \in Els, source \in FewSources, ok \in BOOLEAN :
           RenderStart(i, source, <<"n">>, ok)
    \/ \E i \in Els : RenderAfterInit(i)
    \/ \E i \in Els, outcome \in ParseOutcomes, message \in LibMessages :
           RenderAfterParse(i, outcome, message)
    \/ \E i \in Els, outcome \in RenderOutcomes, markup \in Markups,
          message \in LibMessages :
           RenderAfterRender(i, outcome, markup, message)
SpecPair == Init /\ [][NextPair]_vars

\* one block from activation to unload: every answer of the library, the
\* export button and the exports
NextLife ==
    \/ NextRender(BOOLEAN, {1}, OneSource, OnePath, OneMessage, Markups,
                  ParseOutcomes, RenderOutcomes)
    \/ NextRetry
    \/ \E i \in Els : ClickExportBtn(i)
    \/ NextExport(OneMeasure)
SpecLife == Init /\ [][NextLife]_vars

\* one diagram that renders, its export button and its PNG exports, for
\* every size the browser can measure
NextPng ==
    \/ NextRender({TRUE}, {1}, OneSource, OnePath, OneMessage, {GoodMarkup},
                  {"accept"}, {"markup"})
    \/ \E i \in Els : ClickExportBtn(i)
    \/ NextPngRun(Measures)
SpecPng == Init /\ [][NextPng]_vars

\* ------------------------------------------------------------------ claims
Done(i) == render[i].pc = "done"
IsBlank(text) == \A k \in 1..Len(text) : text[k] = " "
SvgCount(i) == CountIn(Kids(i), "svg")
BtnCount(i) == CountIn(Kids(i), "mermaid-export-btn")
ErrorBlocks(i) == SelectSeq(el[i], IsError)
\* well-formed markup whose root element is svg
IsSvgMarkup(markup) ==
    Len(markup) = 3 /\ markup[1] = "<svg>" /\ markup[3] = "</svg>"

\* C1 as stated: with the library initialised, a source that is not blank and
\* that mermaid.parse accepts ends with exactly one svg under el and no
\* error block under el.
C1_AcceptedSourceEndsAsOneSvg ==
    \A i \in Els :
        (/\ Done(i)
         /\ render[i].initAtStart
         /\ ~IsBlank(render[i].source)
         /\ render[i].parse = "accept")
        => (SvgCount(i) = 1 /\ Len(ErrorBlocks(i)) = 0)

\* C1 as amended: with the library initialised, a source that is not blank,
\* that mermaid.parse accepts and for which mermaid.render returns well-formed
\* markup with an svg root ends with exactly one svg under el and no error
\* block under el.
C1_RenderedSourceEndsAsOneSvg ==
    \A i \in Els :
        (/\ Done(i)
         /\ render[i].initAtStart
         /\ ~IsBlank(render[i].source)
         /\ render[i].parse = "accept"
         /\ IsSvgMarkup(render[i].rendered))
        => (SvgCount(i) = 1 /\ Len(ErrorBlocks(i)) = 0)

C1_Witness ==
    \E i \in Els :
        /\ Done(i)
        /\ render[i].initAtStart
        /\ render[i].source = <<" ", "g">>
        /\ render[i].parse = "accept"
        /\ IsSvgMarkup(render[i].rendered)
        /\ SvgCount(i) = 1

\* C2: a source that is empty or all whitespace ends with an error block
\* under el, and mermaid.render is never called in that invocation.
C2_BlankSourceNeverRendered ==
    \A i \in Els :
        (render[i].pc # "idle" /\ IsBlank(render[i].source))
        => /\ render[i].rendered = <<>>
           /\ Done(i) => Len(ErrorBlocks(i)) = 1

C2_Witness ==
    \E i \in Els :
        /\ Done(i)
        /\ render[i].source = <<" ", " ">>
        /\ render[i].flagAtCheck = "true"
        /\ Len(ErrorBlocks(i)) = 1

\* how a render that got past the readiness check failed, from what it was
\* given and what the library answered
FailureOf(r) ==
    CASE r.flagAtCheck # "true" -> "none"
      [] IsBlank(r.source) -> "Empty Mermaid diagram"
      [] r.parse = "false" -> "Invalid Mermaid syntax"
      [] r.parse = "threw" \/ r.rendered = <<"threw">> ->
            IF r.thrown = "" THEN "Unknown error" ELSE r.thrown
      [] r.parse = "accept" /\ ~IsSvgMarkup(r.rendered) ->
            "Failed to render SVG element"
      [] OTHER -> "none"

\* C3: on every failure of the render path (empty input, invalid syntax,
\* library failure, malformed markup) the one error block under el holds the
\* error message and the raw source exactly as passed to the handler.
C3_ErrorBlockKeepsRawSource ==
    \A i \in Els :
        (Done(i) /\ FailureOf(render[i]) # "none")
        => /\ Len(ErrorBlocks(i)) = 1
           /\ ErrorBlocks(i)[1].code = render[i].source
           /\ ErrorBlocks(i)[1].message =
                  <<"Mermaid Error: ", FailureOf(render[i])>>

C3_Witness ==
    \E i \in Els :
        /\ Done(i)
        /\ render[i].source = <<" ", "g">>
        /\ render[i].parse = "false"
        /\ ErrorBlocks(i)[1].code = <<" ", "g">>

\* C4 as stated: once mermaid.initialize has failed, the flag stays false and
\* every later render attempt of that lifetime shows the fixed message,
\* without a call of mermaid.parse or mermaid.render.
C4_FailedInitIsFinal ==
    /\ lastInitialize = "threw" => ~mermaidInitialized
    /\ \A i \in Els :
           (Done(i) /\ render[i].failedBefore)
           => /\ el[i] = <<InitErrorDiv>>
              /\ render[i].parse = "none"
              /\ render[i].rendered = <<>>

\* C4 as amended: a failed mermaid.initialize leaves the flag false until a
\* later call succeeds, and a render attempt that finds the flag false after
\* its own retry shows the fixed message, without a call of mermaid.parse or
\* mermaid.render.
C4_FailedInitShowsFixedMessage ==
    /\ lastInitialize = "threw" => ~mermaidInitialized
    /\ \A i \in Els :
           (Done(i) /\ render[i].flagAtCheck = "false")
           => /\ el[i] = <<InitErrorDiv>>
              /\ render[i].parse = "none"
              /\ render[i].rendered = <<>>

C4_Witness ==
    \E i \in Els :
        /\ Done(i)
        /\ render[i].failedBefore
        /\ render[i].flagAtCheck = "false"
        /\ lastInitialize = "threw"
        /\ el[i] = <<InitErrorDiv>>

\* C5: a call of initializeMermaid made while the flag is true returns
\* without calling mermaid.initialize and leaves the flag true, so the one
\* configuration that set the flag stays the only effective one.
C5_InitializeIsIdempotent ==
    [][(out'.initialize # "none" /\ mermaidInitialized)
         => (/\ out'.initialize = "returned early"
             /\ mermaidInitialized'
             /\ lastInitialize' = lastInitialize)]_vars

C5_Witness ==
    /\ mermaidInitialized
    /\ lastInitialize = "ok"
    /\ out.initialize = "returned early"

\* C6: every export failure is caught inside the export operation: a failure
\* notice is shown and no rejection reaches the caller.
C6_ExportFailuresAreCaught ==
    out.failure # "none" => (out.notice = "failure" /\ ~out.escaped)

\* C7: a click on the export button of a container that holds a menu removes
\* that menu and creates none; a click on the button of a container without a
\* menu creates exactly one menu, with the two options; and no step ever
\* leaves a container with more than one menu.
C7_ButtonTogglesOneMenu ==
    [][\A i \in Els :
          /\ MenuCount(i)' <= 1
          /\ ClickExportBtn(i) =>
                IF MenuCount(i) > 0
                THEN /\ MenuCount(i)' = 0
                     /\ timers' = timers
                     /\ \A j \in Els : MenusIn(j)' \subseteq MenusIn(j)
                ELSE /\ MenuCount(i)' = 1
                     /\ \A j \in Els \ {i} : MenusIn(j)' = MenusIn(j)
                     /\ \A k \in 1..Len(Kids(i)') :
                            IsMenu(Kids(i)'[k]) =>
                                Kids(i)'[k].content =
                                    <<"Export as SVG", "Export as PNG">>]_vars

C7_Witness ==
    \E i \in Els, m \in MenuIds :
        /\ MenuCount(i) = 1
        /\ ~Attached(m)
        /\ m \in timers

\* C8: the click that opens a menu leaves it open, and once the menu's
\* closeMenu is registered on the document every click whose target is
\* outside the menu dismisses it: on an export button, on an option of
\* another menu, or anywhere else outside it.
C8_OutsideClickDismisses ==
    [][/\ \A i \in Els :
             (ClickExportBtn(i) /\ MenuCount(i) = 0) => MenuCount(i)' = 1
       /\ \A m \in MenuIds :
             (/\ m \in listeners
              /\ Attached(m)
              /\ \/ \E i \in Els : ClickExportBtn(i)
                 \/ \E n \in MenuIds \ {m}, stamp \in Stamps :
                        ClickSvgOption(n, stamp)
                 \/ \E n \in MenuIds \ {m}, canvasOk \in BOOLEAN :
                        ClickPngOption(n, canvasOk, OneMeasure)
                 \/ \E inside \in ({0} \cup MenuIds) \ {m} :
                        ClickDocument(inside))
             => ~Attached(m)']_vars

\* the part of a path before its last '/', and whether it has one
Slashes(p) == {k \in 1..Len(p) : p[k] = "/"}
LastSlash(p) == CHOOSE k \in Slashes(p) : \A j \in Slashes(p) : j <= k
AtRoot(p) == p = NoPath \/ Slashes(p) = {} \/ Slashes(p) = {1}
GeneratedNames(ext) == {<<"mermaid-diagram-", stamp, ext>> : stamp \in Stamps}

\* C9: for both export kinds the destination path is the part of the
\* document's path before its last '/', then '/', then the generated file
\* name; and the generated file name alone when the document is at the root
\* (no '/', no path, or a path whose only '/' comes first).
C9_DestinationPath ==
    out.write # "none" =>
        \E name \in GeneratedNames(IF out.write = "text" THEN ".svg" ELSE ".png") :
            out.path = IF AtRoot(out.doc) THEN name
                       ELSE SubSeq(out.doc, 1, LastSlash(out.doc) - 1)
                                \o <<"/">> \o name

C9_Witness ==
    /\ out.write = "binary"
    /\ out.doc = <<"n", "/", "/">>
    /\ out.path = <<"n", "/", "/", "mermaid-diagram-", "1700000000000", ".png">>

\* C10: the text exportAsSVG writes is the XML declaration, then the SVG
\* document-type declaration, then the serialized rendered visual; and the
\* visual in the container stays what the render attached.
C10_SvgFileText ==
    /\ \A i \in Els :
           HasSvg(i) =>
               /\ SvgCount(i) = 1
               /\ FirstSvg(i) = [tag |-> "svg", id |-> 0,
                                 content |-> <<render[i].rendered[2]>>]
    /\ out.write = "text" =>
           \E i \in Els :
               /\ HasSvg(i)
               /\ out.doc = render[i].path
               /\ out.data = <<XmlDeclaration, "\n", Doctype, "\n",
                               "<svg>", render[i].rendered[2], "</svg>">>

C10_Witness ==
    /\ out.write = "text"
    /\ out.data[3] = Doctype
    /\ HasSvg(1)

\* a computed length that is a number, twice its value in px, and its whole
\* part
IsNumberText(text) == text # <<>> /\ IsDigit(text[1])
WholePx(text) == DigitValue(text[1])
TwicePx(text) == 2 * WholePx(text) + (IF text[2] = "." THEN 1 ELSE 0)

\* twice the measured size, with the fallbacks of the claim as stated: the
\* client size, then the default, when the measured size is 0 or no number
TwiceMeasured(text, client, fallback) ==
    IF IsNumberText(text) /\ TwicePx(text) # 0 THEN TwicePx(text)
    ELSE IF client # 0 THEN 2 * client
    ELSE 2 * fallback

\* twice the whole part of the measured size, with the fallbacks when that
\* whole part is 0 or the measured size is no number
TwiceWhole(text, client, fallback) ==
    IF IsNumberText(text) /\ WholePx(text) # 0 THEN 2 * WholePx(text)
    ELSE IF client # 0 THEN 2 * client
    ELSE 2 * fallback

\* C11 as stated: the canvas is exactly twice the measured width and height
\* (client size, then 800x600, when the measured size is 0 or not a number),
\* and the white rectangle filled before drawing covers the whole canvas.
C11_CanvasIsTwiceMeasured ==
    /\ out.measured # NoMeasure =>
           out.canvas =
               <<TwiceMeasured(out.measured.width, out.measured.clientWidth, 800),
                 TwiceMeasured(out.measured.height, out.measured.clientHeight, 600)>>
    /\ out.fill # <<>> => out.fill = out.canvas

\* C11 as amended: the canvas is exactly twice the whole-pixel part of the
\* measured width and height (client size, then 800x600, when that part is 0
\* or the measured size is not a number), and the white rectangle filled
\* before drawing covers the whole canvas.
C11_CanvasIsTwiceWholePixels ==
    /\ out.measured # NoMeasure =>
           out.canvas =
               <<TwiceWhole(out.measured.width, out.measured.clientWidth, 800),
                 TwiceWhole(out.measured.height, out.measured.clientHeight, 600)>>
    /\ out.fill # <<>> => out.fill = out.canvas

C11_Witness ==
    /\ out.measured.width = PxText(1, TRUE)
    /\ out.measured.height = <<"a", "u", "t", "o">>
    /\ out.measured.clientHeight = 0
    /\ out.canvas = <<2, 1200>>

\* a step in which a caller of initializeMermaid found the flag false: onload,
\* or a render handler at its first check
FoundFlagFalse ==
    /\ ~mermaidInitialized
    /\ \/ plugin = "unloaded" /\ plugin' = "loading"
       \/ \E i \in Els : render[i].pc = "idle" /\ render'[i].pc = "init"

SecondAttemptFollowsFailure ==
    [][out'.initialize \in {"configured", "threw"}
         => /\ ~mermaidInitialized
            /\ plugin = "unloaded" \/ initFailed]_vars

\* steps told by what they change: onload reaching its await, a render
\* handler reaching its await of initializeMermaid, onunload
OnloadStep == plugin = "unloaded" /\ plugin' = "loading"
RetryStep == \E i \in Els : render[i].pc = "idle" /\ render'[i].pc = "init"
OnunloadStep == plugin = "loaded" /\ plugin' = "unloaded"

\* C13 as stated: the flag is written at most once, from false to true, by
\* the initialization of onload; no other operation writes it, and once true
\* it never becomes false again.
C13_FlagWrittenOnce ==
    [][/\ mermaidInitialized => mermaidInitialized'
       /\ mermaidInitialized' # mermaidInitialized => OnloadStep]_vars

\* C13 as amended: the flag goes from false to true only in initializeMermaid,
\* when mermaid.initialize returns, called by onload or by a render handler
\* that found it false; it goes from true to false only in onunload; export
\* and menu handling never write it.
C13_FlagWrittenByInitAndUnload ==
    [][mermaidInitialized' # mermaidInitialized =>
          IF mermaidInitialized'
          THEN /\ out'.initialize = "configured"
               /\ OnloadStep \/ RetryStep
          ELSE OnunloadStep]_vars

C13_Witness ==
    /\ plugin = "unloaded"
    /\ ~mermaidInitialized
    /\ lastInitialize = "ok"
    /\ render[1].ownInit = "ok"

\* C14: a container holds an export button only if it holds an svg, and never
\* more than one; the step that ends a render without an error block
\* attaches exactly one button, after the svg; a render that ends in an error
\* block leaves its element without a button.
C14_ButtonOnlyAfterSvg ==
    [][\A i \in Els :
          /\ HasBtn(i)' => HasSvg(i)'
          /\ BtnCount(i)' <= 1
          /\ Len(ErrorBlocks(i))' > 0 => BtnCount(i)' = 0
          /\ (render[i].pc # "done" /\ render'[i].pc = "done"
                  /\ Len(ErrorBlocks(i))' = 0)
             => /\ BtnCount(i) = 0
                /\ SvgCount(i)' = 1
                /\ BtnCount(i)' = 1
                /\ IsSvg(Kids(i)'[1]) /\ IsBtn(Kids(i)'[2])]_vars

C14_Witness ==
    \E i \in Els :
        /\ Done(i)
        /\ SvgCount(i) = 1
        /\ BtnCount(i) = 1
        /\ MenuCount(i) = 1

\* what an invocation running alone leaves under its element, from its own
\* source, the library's answers to its own calls, and whether it finds the
\* library ready after its own initialization attempt
AloneOutcome(r, ready) ==
    IF ~ready THEN <<InitErrorDiv>>
    ELSE LET failure == FailureOf([r EXCEPT !.flagAtCheck = "true"])
         IN  IF failure = "none"
             THEN <<ContainerDiv(<<[tag |-> "svg", id |-> 0,
                                    content |-> <<r.rendered[2]>>],
                                   ExportBtn>>)>>
             ELSE <<ContainerDiv(<<>>),
                    [cls |-> "mermaid-error", text |-> "",
                     message |-> <<"Mermaid Error: ", failure>>,
                     code |-> r.source, kids |-> <<>>]>>

\* a step of invocation i touches no other element
OwnElementOnly ==
    \A i \in Els :
        render'[i] # render[i] => \A j \in Els \ {i} : el'[j] = el[j]

\* C15 as stated: whatever the interleaving of the invocations, each adds
\* nodes only under its own element and ends with the content it would have
\* produced running alone.
C15_RendersAreIndependent ==
    [][/\ OwnElementOnly
       /\ \A i \in Els :
             (render[i].pc # "done" /\ render'[i].pc = "done")
             => el'[i] = AloneOutcome(render'[i],
                                      \/ render'[i].initAtStart
                                      \/ render'[i].ownInit = "ok")]_vars

\* C15 as amended: each invocation adds nodes only under its own element, and
\* ends with the content it would have produced running alone unless its own
\* initialization attempt failed and another invocation's attempt set the
\* flag before it resumed: then it renders its source instead of showing the
\* fixed message.
C15_RendersShareOnlyTheFlag ==
    [][/\ OwnElementOnly
       /\ \A i \in Els :
             (render[i].pc # "done" /\ render'[i].pc = "done")
             => /\ el'[i] = AloneOutcome(render'[i],
                                         render'[i].flagAtCheck = "true")
                /\ render'[i].flagAtCheck = "true"
                      <=> \/ render'[i].initAtStart
                          \/ render'[i].ownInit = "ok"
                          \/ \E j \in Els \ {i} : render'[j].ownInit = "ok"]_vars

C15_Witness ==
    /\ Done(1) /\ Done(2)
    /\ render[1].ownInit = "threw" /\ render[1].flagAtCheck = "true"
    /\ render[2].ownInit = "ok"
    /\ SvgCount(1) = 1
    /\ Len(ErrorBlocks(2)) = 1

\* the exportAsPNG run of menu m has no callback left to fire
PngRunOver(m) ==
    /\ png[m].pc \notin {"idle", "hung"}
    /\ png'[m].pc \in {"idle", "hung"}

\* C16: a click on "Export as SVG" leaves its menu removed; and once the last
\* callback of an "Export as PNG" run has fired, whether the export succeeded
\* or failed, the promise of exportAsPNG has settled and the click handler
\* has removed the menu.
C16_MenuRemovedAfterExport ==
    [][\A m \in MenuIds :
          /\ (\E stamp \in Stamps : ClickSvgOption(m, stamp)) => ~Attached(m)'
          /\ PngRunOver(m) => (out'.settled /\ ~Attached(m)')]_vars

\* C17: whenever no export menu is open and no dismissal timer is pending, no
\* closeMenu listener is registered on the document, however the menus were
\* closed.
C17_NoListenerWithoutMenu ==
    ((\A i \in Els : MenuCount(i) = 0) /\ timers = {}) => listeners = {}

\* C18: from onunload until the next onload the flag is false and the
\* document holds no export button and no export menu, also when a render or
\* an export started before the unload completes afterwards.
C18_UnloadedMeansSwept ==
    plugin = "unloaded" =>
        /\ ~mermaidInitialized
        /\ \A i \in Els : BtnCount(i) = 0 /\ MenuCount(i) = 0

====
